---------------------------- MODULE Spec2Model ----------------------------
(***************************************************************************)
(* Marching-cubes chunk mesher: Iter3d (iters.rs), Chunk and the           *)
(* ChunkMesh-to-Mesh conversion (chunk.rs), march_cube and the systems     *)
(* update_data / update_noise_values / update_chunk (main.rs).             *)
(*                                                                         *)
(* Number representation.  f32 scalars (field values, isolevel) are        *)
(* fixed-point integers with UNITS_PER_EPS units per 0.00001, so that the  *)
(* epsilon tests of vertex_interp distinguish "equal" from "within         *)
(* epsilon".  f32 positions (Vec3) are fixed-point integer triples with    *)
(* POS_SCALE units per lattice step.  u32 is the range 0..U32_MAX, a       *)
(* scaled-down word.  Option values are records [some, val].               *)
(***************************************************************************)
EXTENDS Integers, Sequences, FiniteSets, TLC

VARIABLES
    iter,             \* the chunk's stored Iter3d component
    yielded,          \* coordinates the iterator returned since new()/reset()
    ret,              \* what the last next() returned
    calls,            \* next() calls since new()/reset()
    was_reset,        \* reset() has been called
    overflow_checks,  \* build profile: TRUE = debug (overflow panics), FALSE = release (wraps)
    panicked,         \* a panic unwound the running operation
    chunk,            \* the Chunk component: [points, size]
    op,               \* the last Chunk operation called: [kind, pos, value]
    prev_points,      \* chunk.points before the last Chunk operation
    got,              \* what the last Chunk::get returned (None: it panicked)
    sets,             \* Chunk::set calls made so far
    isolevel,         \* Data.isolevel
    grid,             \* the GridCell handed to march_cube
    marched,          \* what the last march_cube call returned: [called, some, val, panic]
    chunk_mesh,       \* the ChunkMesh component: [triangles]
    mesh,             \* the Mesh asset of the chunk: [built, indices, positions, uvs, normals]
    cells,            \* the cell origins the last sweep of update_chunk evaluated, in order
    noise,            \* the NoiseSettings resource (the number of the settings in use)
    unseen,           \* change detection: the (resource, system) pairs whose is_changed() is true
    events,           \* StartMarching events update_chunk's EventReader has not read yet
    todo,             \* the systems that have not run yet in the current frame
    swept             \* the sweep of this frame: [several, replaced] events read, buffer replaced

iterVars == <<iter, yielded, ret, calls, was_reset>>
chunkVars == <<chunk, op, prev_points, got, sets>>
marchVars == <<grid, marched>>
meshVars == <<chunk_mesh, mesh>>
vars == <<iter, yielded, ret, calls, was_reset, overflow_checks, panicked,
          chunk, op, prev_points, got, sets, isolevel, grid, marched,
          chunk_mesh, mesh, cells, noise, unseen, events, todo, swept>>
appVars == <<cells, noise, unseen, events, todo, swept>>

---------------------------------------------------------------------------
(* Bounds of the model *)

U32_MAX == 7          \* largest u32 of the scaled-down word
MaxSpan == 1          \* largest max - min per axis of a drawn Iter3d
MaxExtraCalls == 2    \* next() calls explored after exhaustion
MaxSets == 1          \* Chunk::set calls explored on one chunk
POS_SCALE == 1000     \* fixed-point units per lattice step of an f32 position
UNITS_PER_EPS == 2    \* fixed-point units per 0.00001 of an f32 scalar
MaxTris == 3          \* longest triangle list handed to the Mesh conversion alone

\* main.rs: const CHUNK_SIZE
CHUNK_SIZE == 4

\* f32 scalars: 0.00001, 1.0, 0.5
EPS == UNITS_PER_EPS
ONE == 100000 * EPS
HALF == 50000 * EPS

---------------------------------------------------------------------------
(* Option<T> *)

None == [some |-> FALSE, val |-> <<>>]
Some(v) == [some |-> TRUE, val |-> v]

---------------------------------------------------------------------------
(* iters.rs *)

UVec3(x, y, z) == <<x, y, z>>

\* Iter3d::new
Iter3d_new(min, max) == [track |-> min, min |-> min, max |-> max]

\* Iter3d::reset
Iter3d_reset(it) == [it EXCEPT !.track = it.min]

\* u32 `+= 1`: overflow panics under overflow checks and wraps without them
AddOne(a) == IF a = U32_MAX THEN 0 ELSE a + 1
Overflows(a) == a = U32_MAX

\* Iter3d::next: the iterator after the call, the value returned, and whether
\* the call panicked (arithmetic overflow in a build with overflow checks)
Iter3d_next(it, checks) ==
    LET t == it.track IN
    IF t[3] > it.max[3] THEN [it |-> it, ret |-> None, panic |-> FALSE]
    ELSE IF t[1] >= it.max[1]
    THEN IF checks /\ Overflows(t[2])
         THEN [it |-> it, ret |-> None, panic |-> TRUE]
         ELSE LET y1 == AddOne(t[2])
                  x1 == it.min[1]
              IN  IF y1 > it.max[2]
                  THEN IF checks /\ Overflows(t[3])
                       THEN [it |-> [it EXCEPT !.track = UVec3(x1, y1, t[3])],
                             ret |-> None, panic |-> TRUE]
                       ELSE [it |-> [it EXCEPT !.track = UVec3(x1, it.min[2], AddOne(t[3]))],
                             ret |-> Some(t), panic |-> FALSE]
                  ELSE [it |-> [it EXCEPT !.track = UVec3(x1, y1, t[3])],
                        ret |-> Some(t), panic |-> FALSE]
    ELSE [it |-> [it EXCEPT !.track = UVec3(t[1] + 1, t[2], t[3])],
          ret |-> Some(t), panic |-> FALSE]

\* the number of coordinates of the inclusive box [min, max]
BoxCount(it) ==
    (it.max[1] - it.min[1] + 1) * (it.max[2] - it.min[2] + 1) * (it.max[3] - it.min[3] + 1)

---------------------------------------------------------------------------
(* chunk.rs: Chunk *)

Vec3(x, y, z) == <<x, y, z>>

\* UVec3::as_vec3
as_vec3(u) == Vec3(u[1] * POS_SCALE, u[2] * POS_SCALE, u[3] * POS_SCALE)

\* `f32 as usize`: truncates toward zero and saturates at 0 for negatives
as_usize(f) == IF f < 0 THEN 0 ELSE f \div POS_SCALE

\* vec![0.0; n]
Zeros(n) == [i \in 1..n |-> 0]

\* Chunk::new
Chunk_new(points, size) == [points |-> points, size |-> size]

\* Chunk::index with the z stride size instead of size * size
Chunk_index_FlatStride(ch, pos) ==
    (as_usize(pos[3]) * ch.size) + (as_usize(pos[2]) * ch.size) + as_usize(pos[1])

\* Chunk::index
Chunk_index(ch, pos) ==
    (as_usize(pos[3]) * ch.size * ch.size) + (as_usize(pos[2]) * ch.size) + as_usize(pos[1])

\* Vec indexing: points[i] panics unless i < points.len()
InBounds(ch, i) == i < Len(ch.points)

\* Chunk::get: Some(value), or None when the indexing panicked
Chunk_get(ch, pos) ==
    LET i == Chunk_index(ch, pos) IN
    IF InBounds(ch, i) THEN Some(ch.points[i + 1]) ELSE None

\* Chunk::set: the chunk after the call and whether the indexing panicked
Chunk_set(ch, pos, value) ==
    LET i == Chunk_index(ch, pos) IN
    IF InBounds(ch, i)
    THEN [chunk |-> [ch EXCEPT !.points[i + 1] = value], panic |-> FALSE]
    ELSE [chunk |-> ch, panic |-> TRUE]

\* Chunk::new_iter_3d
new_iter_3d(size) == Iter3d_new(UVec3(0, 0, 0), UVec3(size, size, size))

\* setup_chunks: the Chunk component of a spawned chunk of edge length size
SpawnChunk(size) == Chunk_new(Zeros((size + 1) * (size + 1) * (size + 1)), size)

---------------------------------------------------------------------------
(* main.rs: update_noise_values *)

\* Fbm::get mapped to [0, 1] and scaled: the noise library is external; it is
\* a pure function of the settings and the lattice point.  Setting s puts
\* 1.0 on a sparse set of lattice points, 0.5 on another, 0.0 elsewhere.
NoiseValue(s, u) ==
    LET h == (u[1] + 6 * u[2] + 36 * u[3] + 17 * s) % 43 IN
    IF h = 0 THEN ONE ELSE IF h = 21 THEN HALF ELSE 0

\* one turn of the loop `for point in Chunk::new_iter_3d(chunk.size as u32)`:
\* next() on the loop's iterator, then chunk.set of the noise value.  The
\* loop state is [it, chunk, done]; done is set when next() returns None (or
\* set panics) and later turns change nothing.
FillStep(st, s) ==
    IF st.done THEN st
    ELSE LET r == Iter3d_next(st.it, FALSE) IN
         IF ~r.ret.some THEN [st EXCEPT !.done = TRUE]
         ELSE LET w == Chunk_set(st.chunk, as_vec3(r.ret.val), NoiseValue(s, r.ret.val))
              IN  [it |-> r.it, chunk |-> w.chunk, done |-> w.panic]

\* n turns of the loop (split in halves to keep the evaluation shallow)
RECURSIVE FillSteps(_, _, _)
FillSteps(st, s, n) ==
    IF n = 0 THEN st
    ELSE IF n = 1 THEN FillStep(st, s)
    ELSE LET half == FillSteps(st, s, n \div 2)
         IN  IF half.done THEN half ELSE FillSteps(half, s, n - (n \div 2))

\* the loop run to its end: the box has BoxCount points and one more next()
\* returns None (chunk.size < U32_MAX, so next() cannot overflow here)
FillChunk(ch, s) ==
    LET it == new_iter_3d(ch.size)
    IN  FillSteps([it |-> it, chunk |-> ch, done |-> FALSE], s, BoxCount(it) + 1).chunk

---------------------------------------------------------------------------
(* marching_cube_tables.rs: the canonical marching-cubes tables, indexed    *)
(* here from 1 (table[k + 1] is the source's table[k])                      *)

EDGE_CONNECTION ==
    <<<<0, 1>>, <<1, 2>>, <<2, 3>>, <<3, 0>>, <<4, 5>>, <<5, 6>>,
      <<6, 7>>, <<7, 4>>, <<0, 4>>, <<1, 5>>, <<2, 6>>, <<3, 7>>>>

EDGE_TABLE ==
  <<0, 265, 515, 778, 1030, 1295, 1541, 1804, 2060, 2309, 2575, 2822, 3082, 3331, 3593, 3840,
    400, 153, 915, 666, 1430, 1183, 1941, 1692, 2460, 2197, 2975, 2710, 3482, 3219, 3993, 3728,
    560, 825, 51, 314, 1590, 1855, 1077, 1340, 2620, 2869, 2111, 2358, 3642, 3891, 3129, 3376,
    928, 681, 419, 170, 1958, 1711, 1445, 1196, 2988, 2725, 2479, 2214, 4010, 3747, 3497, 3232,
    1120, 1385, 1635, 1898, 102, 367, 613, 876, 3180, 3429, 3695, 3942, 2154, 2403, 2665, 2912,
    1520, 1273, 2035, 1786, 502, 255, 1013, 764, 3580, 3317, 4095, 3830, 2554, 2291, 3065, 2800,
    1616, 1881, 1107, 1370, 598, 863, 85, 348, 3676, 3925, 3167, 3414, 2650, 2899, 2137, 2384,
    1984, 1737, 1475, 1226, 966, 719, 453, 204, 4044, 3781, 3535, 3270, 3018, 2755, 2505, 2240,
    2240, 2505, 2755, 3018, 3270, 3535, 3781, 4044, 204, 453, 719, 966, 1226, 1475, 1737, 1984,
    2384, 2137, 2899, 2650, 3414, 3167, 3925, 3676, 348, 85, 863, 598, 1370, 1107, 1881, 1616,
    2800, 3065, 2291, 2554, 3830, 4095, 3317, 3580, 764, 1013, 255, 502, 1786, 2035, 1273, 1520,
    2912, 2665, 2403, 2154, 3942, 3695, 3429, 3180, 876, 613, 367, 102, 1898, 1635, 1385, 1120,
    3232, 3497, 3747, 4010, 2214, 2479, 2725, 2988, 1196, 1445, 1711, 1958, 170, 419, 681, 928,
    3376, 3129, 3891, 3642, 2358, 2111, 2869, 2620, 1340, 1077, 1855, 1590, 314, 51, 825, 560,
    3728, 3993, 3219, 3482, 2710, 2975, 2197, 2460, 1692, 1941, 1183, 1430, 666, 915, 153, 400,
    3840, 3593, 3331, 3082, 2822, 2575, 2309, 2060, 1804, 1541, 1295, 1030, 778, 515, 265, 0>>

TRIANGLE_TABLE ==
  <<<<-1, -1, -1, -1, -1, -1, -1, -1, -1, -1, -1, -1, -1, -1, -1, -1>>,
    <<0, 8, 3, -1, -1, -1, -1, -1, -1, -1, -1, -1, -1, -1, -1, -1>>,
    <<0, 1, 9, -1, -1, -1, -1, -1, -1, -1, -1, -1, -1, -1, -1, -1>>,
    <<1, 8, 3, 9, 8, 1, -1, -1, -1, -1, -1, -1, -1, -1, -1, -1>>,
    <<1, 2, 10, -1, -1, -1, -1, -1, -1, -1, -1, -1, -1, -1, -1, -1>>,
    <<0, 8, 3, 1, 2, 10, -1, -1, -1, -1, -1, -1, -1, -1, -1, -1>>,
    <<9, 2, 10, 0, 2, 9, -1, -1, -1, -1, -1, -1, -1, -1, -1, -1>>,
    <<2, 8, 3, 2, 10, 8, 10, 9, 8, -1, -1, -1, -1, -1, -1, -1>>,
    <<3, 11, 2, -1, -1, -1, -1, -1, -1, -1, -1, -1, -1, -1, -1, -1>>,
    <<0, 11, 2, 8, 11, 0, -1, -1, -1, -1, -1, -1, -1, -1, -1, -1>>,
    <<1, 9, 0, 2, 3, 11, -1, -1, -1, -1, -1, -1, -1, -1, -1, -1>>,
    <<1, 11, 2, 1, 9, 11, 9, 8, 11, -1, -1, -1, -1, -1, -1, -1>>,
    <<3, 10, 1, 11, 10, 3, -1, -1, -1, -1, -1, -1, -1, -1, -1, -1>>,
    <<0, 10, 1, 0, 8, 10, 8, 11, 10, -1, -1, -1, -1, -1, -1, -1>>,
    <<3, 9, 0, 3, 11, 9, 11, 10, 9, -1, -1, -1, -1, -1, -1, -1>>,
    <<9, 8, 10, 10, 8, 11, -1, -1, -1, -1, -1, -1, -1, -1, -1, -1>>,
    <<4, 7, 8, -1, -1, -1, -1, -1, -1, -1, -1, -1, -1, -1, -1, -1>>,
    <<4, 3, 0, 7, 3, 4, -1, -1, -1, -1, -1, -1, -1, -1, -1, -1>>,
    <<0, 1, 9, 8, 4, 7, -1, -1, -1, -1, -1, -1, -1, -1, -1, -1>>,
    <<4, 1, 9, 4, 7, 1, 7, 3, 1, -1, -1, -1, -1, -1, -1, -1>>,
    <<1, 2, 10, 8, 4, 7, -1, -1, -1, -1, -1, -1, -1, -1, -1, -1>>,
    <<3, 4, 7, 3, 0, 4, 1, 2, 10, -1, -1, -1, -1, -1, -1, -1>>,
    <<9, 2, 10, 9, 0, 2, 8, 4, 7, -1, -1, -1, -1, -1, -1, -1>>,
    <<2, 10, 9, 2, 9, 7, 2, 7, 3, 7, 9, 4, -1, -1, -1, -1>>,
    <<8, 4, 7, 3, 11, 2, -1, -1, -1, -1, -1, -1, -1, -1, -1, -1>>,
    <<11, 4, 7, 11, 2, 4, 2, 0, 4, -1, -1, -1, -1, -1, -1, -1>>,
    <<9, 0, 1, 8, 4, 7, 2, 3, 11, -1, -1, -1, -1, -1, -1, -1>>,
    <<4, 7, 11, 9, 4, 11, 9, 11, 2, 9, 2, 1, -1, -1, -1, -1>>,
    <<3, 10, 1, 3, 11, 10, 7, 8, 4, -1, -1, -1, -1, -1, -1, -1>>,
    <<1, 11, 10, 1, 4, 11, 1, 0, 4, 7, 11, 4, -1, -1, -1, -1>>,
    <<4, 7, 8, 9, 0, 11, 9, 11, 10, 11, 0, 3, -1, -1, -1, -1>>,
    <<4, 7, 11, 4, 11, 9, 9, 11, 10, -1, -1, -1, -1, -1, -1, -1>>,
    <<9, 5, 4, -1, -1, -1, -1, -1, -1, -1, -1, -1, -1, -1, -1, -1>>,
    <<9, 5, 4, 0, 8, 3, -1, -1, -1, -1, -1, -1, -1, -1, -1, -1>>,
    <<0, 5, 4, 1, 5, 0, -1, -1, -1, -1, -1, -1, -1, -1, -1, -1>>,
    <<8, 5, 4, 8, 3, 5, 3, 1, 5, -1, -1, -1, -1, -1, -1, -1>>,
    <<1, 2, 10, 9, 5, 4, -1, -1, -1, -1, -1, -1, -1, -1, -1, -1>>,
    <<3, 0, 8, 1, 2, 10, 4, 9, 5, -1, -1, -1, -1, -1, -1, -1>>,
    <<5, 2, 10, 5, 4, 2, 4, 0, 2, -1, -1, -1, -1, -1, -1, -1>>,
    <<2, 10, 5, 3, 2, 5, 3, 5, 4, 3, 4, 8, -1, -1, -1, -1>>,
    <<9, 5, 4, 2, 3, 11, -1, -1, -1, -1, -1, -1, -1, -1, -1, -1>>,
    <<0, 11, 2, 0, 8, 11, 4, 9, 5, -1, -1, -1, -1, -1, -1, -1>>,
    <<0, 5, 4, 0, 1, 5, 2, 3, 11, -1, -1, -1, -1, -1, -1, -1>>,
    <<2, 1, 5, 2, 5, 8, 2, 8, 11, 4, 8, 5, -1, -1, -1, -1>>,
    <<10, 3, 11, 10, 1, 3, 9, 5, 4, -1, -1, -1, -1, -1, -1, -1>>,
    <<4, 9, 5, 0, 8, 1, 8, 10, 1, 8, 11, 10, -1, -1, -1, -1>>,
    <<5, 4, 0, 5, 0, 11, 5, 11, 10, 11, 0, 3, -1, -1, -1, -1>>,
    <<5, 4, 8, 5, 8, 10, 10, 8, 11, -1, -1, -1, -1, -1, -1, -1>>,
    <<9, 7, 8, 5, 7, 9, -1, -1, -1, -1, -1, -1, -1, -1, -1, -1>>,
    <<9, 3, 0, 9, 5, 3, 5, 7, 3, -1, -1, -1, -1, -1, -1, -1>>,
    <<0, 7, 8, 0, 1, 7, 1, 5, 7, -1, -1, -1, -1, -1, -1, -1>>,
    <<1, 5, 3, 3, 5, 7, -1, -1, -1, -1, -1, -1, -1, -1, -1, -1>>,
    <<9, 7, 8, 9, 5, 7, 10, 1, 2, -1, -1, -1, -1, -1, -1, -1>>,
    <<10, 1, 2, 9, 5, 0, 5, 3, 0, 5, 7, 3, -1, -1, -1, -1>>,
    <<8, 0, 2, 8, 2, 5, 8, 5, 7, 10, 5, 2, -1, -1, -1, -1>>,
    <<2, 10, 5, 2, 5, 3, 3, 5, 7, -1, -1, -1, -1, -1, -1, -1>>,
    <<7, 9, 5, 7, 8, 9, 3, 11, 2, -1, -1, -1, -1, -1, -1, -1>>,
    <<9, 5, 7, 9, 7, 2, 9, 2, 0, 2, 7, 11, -1, -1, -1, -1>>,
    <<2, 3, 11, 0, 1, 8, 1, 7, 8, 1, 5, 7, -1, -1, -1, -1>>,
    <<11, 2, 1, 11, 1, 7, 7, 1, 5, -1, -1, -1, -1, -1, -1, -1>>,
    <<9, 5, 8, 8, 5, 7, 10, 1, 3, 10, 3, 11, -1, -1, -1, -1>>,
    <<5, 7, 0, 5, 0, 9, 7, 11, 0, 1, 0, 10, 11, 10, 0, -1>>,
    <<11, 10, 0, 11, 0, 3, 10, 5, 0, 8, 0, 7, 5, 7, 0, -1>>,
    <<11, 10, 5, 7, 11, 5, -1, -1, -1, -1, -1, -1, -1, -1, -1, -1>>,
    <<10, 6, 5, -1, -1, -1, -1, -1, -1, -1, -1, -1, -1, -1, -1, -1>>,
    <<0, 8, 3, 5, 10, 6, -1, -1, -1, -1, -1, -1, -1, -1, -1, -1>>,
    <<9, 0, 1, 5, 10, 6, -1, -1, -1, -1, -1, -1, -1, -1, -1, -1>>,
    <<1, 8, 3, 1, 9, 8, 5, 10, 6, -1, -1, -1, -1, -1, -1, -1>>,
    <<1, 6, 5, 2, 6, 1, -1, -1, -1, -1, -1, -1, -1, -1, -1, -1>>,
    <<1, 6, 5, 1, 2, 6, 3, 0, 8, -1, -1, -1, -1, -1, -1, -1>>,
    <<9, 6, 5, 9, 0, 6, 0, 2, 6, -1, -1, -1, -1, -1, -1, -1>>,
    <<5, 9, 8, 5, 8, 2, 5, 2, 6, 3, 2, 8, -1, -1, -1, -1>>,
    <<2, 3, 11, 10, 6, 5, -1, -1, -1, -1, -1, -1, -1, -1, -1, -1>>,
    <<11, 0, 8, 11, 2, 0, 10, 6, 5, -1, -1, -1, -1, -1, -1, -1>>,
    <<0, 1, 9, 2, 3, 11, 5, 10, 6, -1, -1, -1, -1, -1, -1, -1>>,
    <<5, 10, 6, 1, 9, 2, 9, 11, 2, 9, 8, 11, -1, -1, -1, -1>>,
    <<6, 3, 11, 6, 5, 3, 5, 1, 3, -1, -1, -1, -1, -1, -1, -1>>,
    <<0, 8, 11, 0, 11, 5, 0, 5, 1, 5, 11, 6, -1, -1, -1, -1>>,
    <<3, 11, 6, 0, 3, 6, 0, 6, 5, 0, 5, 9, -1, -1, -1, -1>>,
    <<6, 5, 9, 6, 9, 11, 11, 9, 8, -1, -1, -1, -1, -1, -1, -1>>,
    <<5, 10, 6, 4, 7, 8, -1, -1, -1, -1, -1, -1, -1, -1, -1, -1>>,
    <<4, 3, 0, 4, 7, 3, 6, 5, 10, -1, -1, -1, -1, -1, -1, -1>>,
    <<1, 9, 0, 5, 10, 6, 8, 4, 7, -1, -1, -1, -1, -1, -1, -1>>,
    <<10, 6, 5, 1, 9, 7, 1, 7, 3, 7, 9, 4, -1, -1, -1, -1>>,
    <<6, 1, 2, 6, 5, 1, 4, 7, 8, -1, -1, -1, -1, -1, -1, -1>>,
    <<1, 2, 5, 5, 2, 6, 3, 0, 4, 3, 4, 7, -1, -1, -1, -1>>,
    <<8, 4, 7, 9, 0, 5, 0, 6, 5, 0, 2, 6, -1, -1, -1, -1>>,
    <<7, 3, 9, 7, 9, 4, 3, 2, 9, 5, 9, 6, 2, 6, 9, -1>>,
    <<3, 11, 2, 7, 8, 4, 10, 6, 5, -1, -1, -1, -1, -1, -1, -1>>,
    <<5, 10, 6, 4, 7, 2, 4, 2, 0, 2, 7, 11, -1, -1, -1, -1>>,
    <<0, 1, 9, 4, 7, 8, 2, 3, 11, 5, 10, 6, -1, -1, -1, -1>>,
    <<9, 2, 1, 9, 11, 2, 9, 4, 11, 7, 11, 4, 5, 10, 6, -1>>,
    <<8, 4, 7, 3, 11, 5, 3, 5, 1, 5, 11, 6, -1, -1, -1, -1>>,
    <<5, 1, 11, 5, 11, 6, 1, 0, 11, 7, 11, 4, 0, 4, 11, -1>>,
    <<0, 5, 9, 0, 6, 5, 0, 3, 6, 11, 6, 3, 8, 4, 7, -1>>,
    <<6, 5, 9, 6, 9, 11, 4, 7, 9, 7, 11, 9, -1, -1, -1, -1>>,
    <<10, 4, 9, 6, 4, 10, -1, -1, -1, -1, -1, -1, -1, -1, -1, -1>>,
    <<4, 10, 6, 4, 9, 10, 0, 8, 3, -1, -1, -1, -1, -1, -1, -1>>,
    <<10, 0, 1, 10, 6, 0, 6, 4, 0, -1, -1, -1, -1, -1, -1, -1>>,
    <<8, 3, 1, 8, 1, 6, 8, 6, 4, 6, 1, 10, -1, -1, -1, -1>>,
    <<1, 4, 9, 1, 2, 4, 2, 6, 4, -1, -1, -1, -1, -1, -1, -1>>,
    <<3, 0, 8, 1, 2, 9, 2, 4, 9, 2, 6, 4, -1, -1, -1, -1>>,
    <<0, 2, 4, 4, 2, 6, -1, -1, -1, -1, -1, -1, -1, -1, -1, -1>>,
    <<8, 3, 2, 8, 2, 4, 4, 2, 6, -1, -1, -1, -1, -1, -1, -1>>,
    <<10, 4, 9, 10, 6, 4, 11, 2, 3, -1, -1, -1, -1, -1, -1, -1>>,
    <<0, 8, 2, 2, 8, 11, 4, 9, 10, 4, 10, 6, -1, -1, -1, -1>>,
    <<3, 11, 2, 0, 1, 6, 0, 6, 4, 6, 1, 10, -1, -1, -1, -1>>,
    <<6, 4, 1, 6, 1, 10, 4, 8, 1, 2, 1, 11, 8, 11, 1, -1>>,
    <<9, 6, 4, 9, 3, 6, 9, 1, 3, 11, 6, 3, -1, -1, -1, -1>>,
    <<8, 11, 1, 8, 1, 0, 11, 6, 1, 9, 1, 4, 6, 4, 1, -1>>,
    <<3, 11, 6, 3, 6, 0, 0, 6, 4, -1, -1, -1, -1, -1, -1, -1>>,
    <<6, 4, 8, 11, 6, 8, -1, -1, -1, -1, -1, -1, -1, -1, -1, -1>>,
    <<7, 10, 6, 7, 8, 10, 8, 9, 10, -1, -1, -1, -1, -1, -1, -1>>,
    <<0, 7, 3, 0, 10, 7, 0, 9, 10, 6, 7, 10, -1, -1, -1, -1>>,
    <<10, 6, 7, 1, 10, 7, 1, 7, 8, 1, 8, 0, -1, -1, -1, -1>>,
    <<10, 6, 7, 10, 7, 1, 1, 7, 3, -1, -1, -1, -1, -1, -1, -1>>,
    <<1, 2, 6, 1, 6, 8, 1, 8, 9, 8, 6, 7, -1, -1, -1, -1>>,
    <<2, 6, 9, 2, 9, 1, 6, 7, 9, 0, 9, 3, 7, 3, 9, -1>>,
    <<7, 8, 0, 7, 0, 6, 6, 0, 2, -1, -1, -1, -1, -1, -1, -1>>,
    <<7, 3, 2, 6, 7, 2, -1, -1, -1, -1, -1, -1, -1, -1, -1, -1>>,
    <<2, 3, 11, 10, 6, 8, 10, 8, 9, 8, 6, 7, -1, -1, -1, -1>>,
    <<2, 0, 7, 2, 7, 11, 0, 9, 7, 6, 7, 10, 9, 10, 7, -1>>,
    <<1, 8, 0, 1, 7, 8, 1, 10, 7, 6, 7, 10, 2, 3, 11, -1>>,
    <<11, 2, 1, 11, 1, 7, 10, 6, 1, 6, 7, 1, -1, -1, -1, -1>>,
    <<8, 9, 6, 8, 6, 7, 9, 1, 6, 11, 6, 3, 1, 3, 6, -1>>,
    <<0, 9, 1, 11, 6, 7, -1, -1, -1, -1, -1, -1, -1, -1, -1, -1>>,
    <<7, 8, 0, 7, 0, 6, 3, 11, 0, 11, 6, 0, -1, -1, -1, -1>>,
    <<7, 11, 6, -1, -1, -1, -1, -1, -1, -1, -1, -1, -1, -1, -1, -1>>,
    <<7, 6, 11, -1, -1, -1, -1, -1, -1, -1, -1, -1, -1, -1, -1, -1>>,
    <<3, 0, 8, 11, 7, 6, -1, -1, -1, -1, -1, -1, -1, -1, -1, -1>>,
    <<0, 1, 9, 11, 7, 6, -1, -1, -1, -1, -1, -1, -1, -1, -1, -1>>,
    <<8, 1, 9, 8, 3, 1, 11, 7, 6, -1, -1, -1, -1, -1, -1, -1>>,
    <<10, 1, 2, 6, 11, 7, -1, -1, -1, -1, -1, -1, -1, -1, -1, -1>>,
    <<1, 2, 10, 3, 0, 8, 6, 11, 7, -1, -1, -1, -1, -1, -1, -1>>,
    <<2, 9, 0, 2, 10, 9, 6, 11, 7, -1, -1, -1, -1, -1, -1, -1>>,
    <<6, 11, 7, 2, 10, 3, 10, 8, 3, 10, 9, 8, -1, -1, -1, -1>>,
    <<7, 2, 3, 6, 2, 7, -1, -1, -1, -1, -1, -1, -1, -1, -1, -1>>,
    <<7, 0, 8, 7, 6, 0, 6, 2, 0, -1, -1, -1, -1, -1, -1, -1>>,
    <<2, 7, 6, 2, 3, 7, 0, 1, 9, -1, -1, -1, -1, -1, -1, -1>>,
    <<1, 6, 2, 1, 8, 6, 1, 9, 8, 8, 7, 6, -1, -1, -1, -1>>,
    <<10, 7, 6, 10, 1, 7, 1, 3, 7, -1, -1, -1, -1, -1, -1, -1>>,
    <<10, 7, 6, 1, 7, 10, 1, 8, 7, 1, 0, 8, -1, -1, -1, -1>>,
    <<0, 3, 7, 0, 7, 10, 0, 10, 9, 6, 10, 7, -1, -1, -1, -1>>,
    <<7, 6, 10, 7, 10, 8, 8, 10, 9, -1, -1, -1, -1, -1, -1, -1>>,
    <<6, 8, 4, 11, 8, 6, -1, -1, -1, -1, -1, -1, -1, -1, -1, -1>>,
    <<3, 6, 11, 3, 0, 6, 0, 4, 6, -1, -1, -1, -1, -1, -1, -1>>,
    <<8, 6, 11, 8, 4, 6, 9, 0, 1, -1, -1, -1, -1, -1, -1, -1>>,
    <<9, 4, 6, 9, 6, 3, 9, 3, 1, 11, 3, 6, -1, -1, -1, -1>>,
    <<6, 8, 4, 6, 11, 8, 2, 10, 1, -1, -1, -1, -1, -1, -1, -1>>,
    <<1, 2, 10, 3, 0, 11, 0, 6, 11, 0, 4, 6, -1, -1, -1, -1>>,
    <<4, 11, 8, 4, 6, 11, 0, 2, 9, 2, 10, 9, -1, -1, -1, -1>>,
    <<10, 9, 3, 10, 3, 2, 9, 4, 3, 11, 3, 6, 4, 6, 3, -1>>,
    <<8, 2, 3, 8, 4, 2, 4, 6, 2, -1, -1, -1, -1, -1, -1, -1>>,
    <<0, 4, 2, 4, 6, 2, -1, -1, -1, -1, -1, -1, -1, -1, -1, -1>>,
    <<1, 9, 0, 2, 3, 4, 2, 4, 6, 4, 3, 8, -1, -1, -1, -1>>,
    <<1, 9, 4, 1, 4, 2, 2, 4, 6, -1, -1, -1, -1, -1, -1, -1>>,
    <<8, 1, 3, 8, 6, 1, 8, 4, 6, 6, 10, 1, -1, -1, -1, -1>>,
    <<10, 1, 0, 10, 0, 6, 6, 0, 4, -1, -1, -1, -1, -1, -1, -1>>,
    <<4, 6, 3, 4, 3, 8, 6, 10, 3, 0, 3, 9, 10, 9, 3, -1>>,
    <<10, 9, 4, 6, 10, 4, -1, -1, -1, -1, -1, -1, -1, -1, -1, -1>>,
    <<4, 9, 5, 7, 6, 11, -1, -1, -1, -1, -1, -1, -1, -1, -1, -1>>,
    <<0, 8, 3, 4, 9, 5, 11, 7, 6, -1, -1, -1, -1, -1, -1, -1>>,
    <<5, 0, 1, 5, 4, 0, 7, 6, 11, -1, -1, -1, -1, -1, -1, -1>>,
    <<11, 7, 6, 8, 3, 4, 3, 5, 4, 3, 1, 5, -1, -1, -1, -1>>,
    <<9, 5, 4, 10, 1, 2, 7, 6, 11, -1, -1, -1, -1, -1, -1, -1>>,
    <<6, 11, 7, 1, 2, 10, 0, 8, 3, 4, 9, 5, -1, -1, -1, -1>>,
    <<7, 6, 11, 5, 4, 10, 4, 2, 10, 4, 0, 2, -1, -1, -1, -1>>,
    <<3, 4, 8, 3, 5, 4, 3, 2, 5, 10, 5, 2, 11, 7, 6, -1>>,
    <<7, 2, 3, 7, 6, 2, 5, 4, 9, -1, -1, -1, -1, -1, -1, -1>>,
    <<9, 5, 4, 0, 8, 6, 0, 6, 2, 6, 8, 7, -1, -1, -1, -1>>,
    <<3, 6, 2, 3, 7, 6, 1, 5, 0, 5, 4, 0, -1, -1, -1, -1>>,
    <<6, 2, 8, 6, 8, 7, 2, 1, 8, 4, 8, 5, 1, 5, 8, -1>>,
    <<9, 5, 4, 10, 1, 6, 1, 7, 6, 1, 3, 7, -1, -1, -1, -1>>,
    <<1, 6, 10, 1, 7, 6, 1, 0, 7, 8, 7, 0, 9, 5, 4, -1>>,
    <<4, 0, 10, 4, 10, 5, 0, 3, 10, 6, 10, 7, 3, 7, 10, -1>>,
    <<7, 6, 10, 7, 10, 8, 5, 4, 10, 4, 8, 10, -1, -1, -1, -1>>,
    <<6, 9, 5, 6, 11, 9, 11, 8, 9, -1, -1, -1, -1, -1, -1, -1>>,
    <<3, 6, 11, 0, 6, 3, 0, 5, 6, 0, 9, 5, -1, -1, -1, -1>>,
    <<0, 11, 8, 0, 5, 11, 0, 1, 5, 5, 6, 11, -1, -1, -1, -1>>,
    <<6, 11, 3, 6, 3, 5, 5, 3, 1, -1, -1, -1, -1, -1, -1, -1>>,
    <<1, 2, 10, 9, 5, 11, 9, 11, 8, 11, 5, 6, -1, -1, -1, -1>>,
    <<0, 11, 3, 0, 6, 11, 0, 9, 6, 5, 6, 9, 1, 2, 10, -1>>,
    <<11, 8, 5, 11, 5, 6, 8, 0, 5, 10, 5, 2, 0, 2, 5, -1>>,
    <<6, 11, 3, 6, 3, 5, 2, 10, 3, 10, 5, 3, -1, -1, -1, -1>>,
    <<5, 8, 9, 5, 2, 8, 5, 6, 2, 3, 8, 2, -1, -1, -1, -1>>,
    <<9, 5, 6, 9, 6, 0, 0, 6, 2, -1, -1, -1, -1, -1, -1, -1>>,
    <<1, 5, 8, 1, 8, 0, 5, 6, 8, 3, 8, 2, 6, 2, 8, -1>>,
    <<1, 5, 6, 2, 1, 6, -1, -1, -1, -1, -1, -1, -1, -1, -1, -1>>,
    <<1, 3, 6, 1, 6, 10, 3, 8, 6, 5, 6, 9, 8, 9, 6, -1>>,
    <<10, 1, 0, 10, 0, 6, 9, 5, 0, 5, 6, 0, -1, -1, -1, -1>>,
    <<0, 3, 8, 5, 6, 10, -1, -1, -1, -1, -1, -1, -1, -1, -1, -1>>,
    <<10, 5, 6, -1, -1, -1, -1, -1, -1, -1, -1, -1, -1, -1, -1, -1>>,
    <<11, 5, 10, 7, 5, 11, -1, -1, -1, -1, -1, -1, -1, -1, -1, -1>>,
    <<11, 5, 10, 11, 7, 5, 8, 3, 0, -1, -1, -1, -1, -1, -1, -1>>,
    <<5, 11, 7, 5, 10, 11, 1, 9, 0, -1, -1, -1, -1, -1, -1, -1>>,
    <<10, 7, 5, 10, 11, 7, 9, 8, 1, 8, 3, 1, -1, -1, -1, -1>>,
    <<11, 1, 2, 11, 7, 1, 7, 5, 1, -1, -1, -1, -1, -1, -1, -1>>,
    <<0, 8, 3, 1, 2, 7, 1, 7, 5, 7, 2, 11, -1, -1, -1, -1>>,
    <<9, 7, 5, 9, 2, 7, 9, 0, 2, 2, 11, 7, -1, -1, -1, -1>>,
    <<7, 5, 2, 7, 2, 11, 5, 9, 2, 3, 2, 8, 9, 8, 2, -1>>,
    <<2, 5, 10, 2, 3, 5, 3, 7, 5, -1, -1, -1, -1, -1, -1, -1>>,
    <<8, 2, 0, 8, 5, 2, 8, 7, 5, 10, 2, 5, -1, -1, -1, -1>>,
    <<9, 0, 1, 5, 10, 3, 5, 3, 7, 3, 10, 2, -1, -1, -1, -1>>,
    <<9, 8, 2, 9, 2, 1, 8, 7, 2, 10, 2, 5, 7, 5, 2, -1>>,
    <<1, 3, 5, 3, 7, 5, -1, -1, -1, -1, -1, -1, -1, -1, -1, -1>>,
    <<0, 8, 7, 0, 7, 1, 1, 7, 5, -1, -1, -1, -1, -1, -1, -1>>,
    <<9, 0, 3, 9, 3, 5, 5, 3, 7, -1, -1, -1, -1, -1, -1, -1>>,
    <<9, 8, 7, 5, 9, 7, -1, -1, -1, -1, -1, -1, -1, -1, -1, -1>>,
    <<5, 8, 4, 5, 10, 8, 10, 11, 8, -1, -1, -1, -1, -1, -1, -1>>,
    <<5, 0, 4, 5, 11, 0, 5, 10, 11, 11, 3, 0, -1, -1, -1, -1>>,
    <<0, 1, 9, 8, 4, 10, 8, 10, 11, 10, 4, 5, -1, -1, -1, -1>>,
    <<10, 11, 4, 10, 4, 5, 11, 3, 4, 9, 4, 1, 3, 1, 4, -1>>,
    <<2, 5, 1, 2, 8, 5, 2, 11, 8, 4, 5, 8, -1, -1, -1, -1>>,
    <<0, 4, 11, 0, 11, 3, 4, 5, 11, 2, 11, 1, 5, 1, 11, -1>>,
    <<0, 2, 5, 0, 5, 9, 2, 11, 5, 4, 5, 8, 11, 8, 5, -1>>,
    <<9, 4, 5, 2, 11, 3, -1, -1, -1, -1, -1, -1, -1, -1, -1, -1>>,
    <<2, 5, 10, 3, 5, 2, 3, 4, 5, 3, 8, 4, -1, -1, -1, -1>>,
    <<5, 10, 2, 5, 2, 4, 4, 2, 0, -1, -1, -1, -1, -1, -1, -1>>,
    <<3, 10, 2, 3, 5, 10, 3, 8, 5, 4, 5, 8, 0, 1, 9, -1>>,
    <<5, 10, 2, 5, 2, 4, 1, 9, 2, 9, 4, 2, -1, -1, -1, -1>>,
    <<8, 4, 5, 8, 5, 3, 3, 5, 1, -1, -1, -1, -1, -1, -1, -1>>,
    <<0, 4, 5, 1, 0, 5, -1, -1, -1, -1, -1, -1, -1, -1, -1, -1>>,
    <<8, 4, 5, 8, 5, 3, 9, 0, 5, 0, 3, 5, -1, -1, -1, -1>>,
    <<9, 4, 5, -1, -1, -1, -1, -1, -1, -1, -1, -1, -1, -1, -1, -1>>,
    <<4, 11, 7, 4, 9, 11, 9, 10, 11, -1, -1, -1, -1, -1, -1, -1>>,
    <<0, 8, 3, 4, 9, 7, 9, 11, 7, 9, 10, 11, -1, -1, -1, -1>>,
    <<1, 10, 11, 1, 11, 4, 1, 4, 0, 7, 4, 11, -1, -1, -1, -1>>,
    <<3, 1, 4, 3, 4, 8, 1, 10, 4, 7, 4, 11, 10, 11, 4, -1>>,
    <<4, 11, 7, 9, 11, 4, 9, 2, 11, 9, 1, 2, -1, -1, -1, -1>>,
    <<9, 7, 4, 9, 11, 7, 9, 1, 11, 2, 11, 1, 0, 8, 3, -1>>,
    <<11, 7, 4, 11, 4, 2, 2, 4, 0, -1, -1, -1, -1, -1, -1, -1>>,
    <<11, 7, 4, 11, 4, 2, 8, 3, 4, 3, 2, 4, -1, -1, -1, -1>>,
    <<2, 9, 10, 2, 7, 9, 2, 3, 7, 7, 4, 9, -1, -1, -1, -1>>,
    <<9, 10, 7, 9, 7, 4, 10, 2, 7, 8, 7, 0, 2, 0, 7, -1>>,
    <<3, 7, 10, 3, 10, 2, 7, 4, 10, 1, 10, 0, 4, 0, 10, -1>>,
    <<1, 10, 2, 8, 7, 4, -1, -1, -1, -1, -1, -1, -1, -1, -1, -1>>,
    <<4, 9, 1, 4, 1, 7, 7, 1, 3, -1, -1, -1, -1, -1, -1, -1>>,
    <<4, 9, 1, 4, 1, 7, 0, 8, 1, 8, 7, 1, -1, -1, -1, -1>>,
    <<4, 0, 3, 7, 4, 3, -1, -1, -1, -1, -1, -1, -1, -1, -1, -1>>,
    <<4, 8, 7, -1, -1, -1, -1, -1, -1, -1, -1, -1, -1, -1, -1, -1>>,
    <<9, 10, 8, 10, 11, 8, -1, -1, -1, -1, -1, -1, -1, -1, -1, -1>>,
    <<3, 0, 9, 3, 9, 11, 11, 9, 10, -1, -1, -1, -1, -1, -1, -1>>,
    <<0, 1, 10, 0, 10, 8, 8, 10, 11, -1, -1, -1, -1, -1, -1, -1>>,
    <<3, 1, 10, 11, 3, 10, -1, -1, -1, -1, -1, -1, -1, -1, -1, -1>>,
    <<1, 2, 11, 1, 11, 9, 9, 11, 8, -1, -1, -1, -1, -1, -1, -1>>,
    <<3, 0, 9, 3, 9, 11, 1, 2, 9, 2, 11, 9, -1, -1, -1, -1>>,
    <<0, 2, 11, 8, 0, 11, -1, -1, -1, -1, -1, -1, -1, -1, -1, -1>>,
    <<3, 2, 11, -1, -1, -1, -1, -1, -1, -1, -1, -1, -1, -1, -1, -1>>,
    <<2, 3, 8, 2, 8, 10, 10, 8, 9, -1, -1, -1, -1, -1, -1, -1>>,
    <<9, 10, 2, 0, 9, 2, -1, -1, -1, -1, -1, -1, -1, -1, -1, -1>>,
    <<2, 3, 8, 2, 8, 10, 0, 1, 8, 1, 10, 8, -1, -1, -1, -1>>,
    <<1, 10, 2, -1, -1, -1, -1, -1, -1, -1, -1, -1, -1, -1, -1, -1>>,
    <<1, 3, 8, 9, 1, 8, -1, -1, -1, -1, -1, -1, -1, -1, -1, -1>>,
    <<0, 9, 1, -1, -1, -1, -1, -1, -1, -1, -1, -1, -1, -1, -1, -1>>,
    <<0, 3, 8, -1, -1, -1, -1, -1, -1, -1, -1, -1, -1, -1, -1, -1>>,
    <<-1, -1, -1, -1, -1, -1, -1, -1, -1, -1, -1, -1, -1, -1, -1, -1>>>>

---------------------------------------------------------------------------
(* main.rs: GridCell, vertex_interp, march_cube *)

\* the corner offsets of GridCell::new, in corner order 0..7
CornerOffsets ==
    <<UVec3(0, 0, 0), UVec3(1, 0, 0), UVec3(1, 0, 1), UVec3(0, 0, 1),
      UVec3(0, 1, 0), UVec3(1, 1, 0), UVec3(1, 1, 1), UVec3(0, 1, 1)>>

VecAdd(a, b) == Vec3(a[1] + b[1], a[2] + b[2], a[3] + b[3])
VecSub(a, b) == Vec3(a[1] - b[1], a[2] - b[2], a[3] - b[3])

\* GridCell::new
GridCell_new(pos) ==
    [vertex_position |->
        <<VecAdd(pos, as_vec3(CornerOffsets[1])), VecAdd(pos, as_vec3(CornerOffsets[2])),
          VecAdd(pos, as_vec3(CornerOffsets[3])), VecAdd(pos, as_vec3(CornerOffsets[4])),
          VecAdd(pos, as_vec3(CornerOffsets[5])), VecAdd(pos, as_vec3(CornerOffsets[6])),
          VecAdd(pos, as_vec3(CornerOffsets[7])), VecAdd(pos, as_vec3(CornerOffsets[8]))>>,
     value |-> <<0, 0, 0, 0, 0, 0, 0, 0>>]

Abs(a) == IF a < 0 THEN -a ELSE a

\* vertex_interp: mu * (p2 - p1) is rounded down to the fixed-point grid
vertex_interp(iso, p1, p2, valp1, valp2) ==
    IF Abs(iso - valp1) < EPS THEN p1
    ELSE IF Abs(iso - valp2) < EPS THEN p2
    ELSE IF Abs(valp1 - valp2) < EPS THEN p1
    ELSE Vec3(p1[1] + (((iso - valp1) * (p2[1] - p1[1])) \div (valp2 - valp1)),
              p1[2] + (((iso - valp1) * (p2[2] - p1[2])) \div (valp2 - valp1)),
              p1[3] + (((iso - valp1) * (p2[3] - p1[3])) \div (valp2 - valp1)))

Pow2(i) == 2 ^ i
Bit(mask, i) == (mask \div Pow2(i)) % 2 = 1

\* the first loop of march_cube: bit i of cube_index is set iff value[i] < isolevel
RECURSIVE CubeIndexFrom(_, _, _)
CubeIndexFrom(g, iso, i) ==
    IF i = 8 THEN 0
    ELSE (IF g.value[i + 1] < iso THEN Pow2(i) ELSE 0) + CubeIndexFrom(g, iso, i + 1)

\* the same loop with <= for <
RECURSIVE CubeIndexFromLe(_, _, _)
CubeIndexFromLe(g, iso, i) ==
    IF i = 8 THEN 0
    ELSE (IF g.value[i + 1] <= iso THEN Pow2(i) ELSE 0) + CubeIndexFromLe(g, iso, i + 1)

\* [Vec3::ZERO; 12]
ZeroVertices ==
    <<Vec3(0, 0, 0), Vec3(0, 0, 0), Vec3(0, 0, 0), Vec3(0, 0, 0), Vec3(0, 0, 0), Vec3(0, 0, 0),
      Vec3(0, 0, 0), Vec3(0, 0, 0), Vec3(0, 0, 0), Vec3(0, 0, 0), Vec3(0, 0, 0), Vec3(0, 0, 0)>>

\* the second loop of march_cube from turn i: the interpolated vertex of every
\* crossed edge (vertices[i + 1] is the source's vertices[i])
RECURSIVE EdgeVertices(_, _, _, _, _)
EdgeVertices(g, iso, edge, i, vertices) ==
    IF i = 12 THEN vertices
    ELSE IF Bit(edge, i)
    THEN LET u == EDGE_CONNECTION[i + 1][1]
             v == EDGE_CONNECTION[i + 1][2]
         IN  EdgeVertices(g, iso, edge, i + 1,
                 [vertices EXCEPT ![i + 1] =
                     vertex_interp(iso, g.vertex_position[u + 1], g.vertex_position[v + 1],
                                   g.value[u + 1], g.value[v + 1])])
    ELSE EdgeVertices(g, iso, edge, i + 1, vertices)

\* the third loop of march_cube, `for i in (0..16).step_by(3)`: a row slot
\* beyond 15, or a negative edge id used as an index, panics
RECURSIVE TriangleLoop(_, _, _, _)
TriangleLoop(row, vertices, i, acc) ==
    IF i >= 16 THEN [val |-> acc, panic |-> FALSE]
    ELSE IF row[i + 1] < 0 THEN [val |-> acc, panic |-> FALSE]
    ELSE IF i + 2 >= 16 THEN [val |-> acc, panic |-> TRUE]
    ELSE IF row[i + 2] < 0 \/ row[i + 3] < 0 THEN [val |-> acc, panic |-> TRUE]
    ELSE TriangleLoop(row, vertices, i + 3,
                      Append(acc, <<vertices[row[i + 3] + 1], vertices[row[i + 2] + 1],
                                    vertices[row[i + 1] + 1]>>))

\* march_cube after its first loop
MarchFrom(cube_index, g, iso) ==
    LET edge == EDGE_TABLE[cube_index + 1] IN
    IF edge = 0 THEN [some |-> FALSE, val |-> <<>>, panic |-> FALSE]
    ELSE LET t == TriangleLoop(TRIANGLE_TABLE[cube_index + 1], EdgeVertices(g, iso, edge, 0, ZeroVertices), 0, <<>>)
         IN  [some |-> ~t.panic, val |-> t.val, panic |-> t.panic]

\* march_cube with the corner test of CubeIndexFromLe
march_cube_Le(g, iso) == MarchFrom(CubeIndexFromLe(g, iso, 0), g, iso)

\* march_cube: Some(triangles) or None, or a panic
march_cube(g, iso) == MarchFrom(CubeIndexFrom(g, iso, 0), g, iso)

---------------------------------------------------------------------------
(* chunk.rs: impl From<ChunkMesh> for Mesh *)

Cross(a, b) ==
    Vec3(a[2] * b[3] - a[3] * b[2], a[3] * b[1] - a[1] * b[3], a[1] * b[2] - a[2] * b[1])

RECURSIVE Gcd(_, _)
Gcd(a, b) == IF b = 0 THEN a ELSE Gcd(b, a % b)

\* Vec3::normalize: the unit vector of v, held exactly as the shortest integer
\* vector of its direction; the zero vector has no direction and normalizes
\* to NaN components
normalize(v) ==
    IF v = Vec3(0, 0, 0) THEN [nan |-> TRUE, dir |-> Vec3(0, 0, 0)]
    ELSE LET g == Gcd(Gcd(Abs(v[1]), Abs(v[2])), Abs(v[3]))
         IN  [nan |-> FALSE, dir |-> Vec3(v[1] \div g, v[2] \div g, v[3] \div g)]

\* f32 `==` on the components of a normal: NaN equals nothing, itself included
NormalEq(n, m) == ~n.nan /\ ~m.nan /\ n.dir = m.dir

\* face_normal
face_normal(a, b, c) == normalize(Cross(VecSub(b, a), VecSub(c, a)))

\* vertices_normals.iter().position(|&(v, n)| v == vertex && n == normal)
Position(vertices_normals, vertex, normal) ==
    LET hits == {k \in 1..Len(vertices_normals) :
                    /\ vertices_normals[k][1] = vertex
                    /\ NormalEq(vertices_normals[k][2], normal)}
    IN  IF hits = {} THEN None
        ELSE Some((CHOOSE k \in hits : \A j \in hits : k <= j) - 1)

\* the match of the inner loop with `vertices_normals.len()` pushed as the new index
PushVertex_LenAsIndex(st, vertex, normal) ==
    LET found == Position(st.vertices_normals, vertex, normal) IN
    IF found.some
    THEN [st EXCEPT !.indices = Append(st.indices, found.val)]
    ELSE LET vn == Append(st.vertices_normals, <<vertex, normal>>)
         IN  [indices |-> Append(st.indices, Len(vn)), vertices_normals |-> vn]

\* the match of the inner loop: reuse the index of a matching pair, or push
\* the pair and use its index
PushVertex(st, vertex, normal) ==
    LET found == Position(st.vertices_normals, vertex, normal) IN
    IF found.some
    THEN [st EXCEPT !.indices = Append(st.indices, found.val)]
    ELSE LET vn == Append(st.vertices_normals, <<vertex, normal>>)
         IN  [indices |-> Append(st.indices, Len(vn) - 1), vertices_normals |-> vn]

\* one turn of `for [a, b, c] in chunk.triangles`
PushTriangle(st, t) ==
    LET normal == face_normal(t[1], t[2], t[3]) IN
    PushVertex(PushVertex(PushVertex(st, t[1], normal), t[2], normal), t[3], normal)

\* the turns lo..hi of that loop (split in halves to keep the evaluation shallow)
RECURSIVE PushTriangles(_, _, _, _)
PushTriangles(st, triangles, lo, hi) ==
    IF lo > hi THEN st
    ELSE IF lo = hi THEN PushTriangle(st, triangles[lo])
    ELSE LET mid == (lo + hi) \div 2
             left == PushTriangles(st, triangles, lo, mid)
         IN  IF Len(left.indices) >= 0 THEN PushTriangles(left, triangles, mid + 1, hi) ELSE left

\* Mesh::from(chunk_mesh)
Mesh_from(cm) ==
    LET st == PushTriangles([indices |-> <<>>, vertices_normals |-> <<>>],
                            cm.triangles, 1, Len(cm.triangles))
        vn == st.vertices_normals
    IN  [built |-> TRUE,
         indices |-> st.indices,
         positions |-> [k \in 1..Len(vn) |-> vn[k][1]],
         uvs |-> [k \in 1..Len(vn) |-> <<0, 0>>],
         normals |-> [k \in 1..Len(vn) |-> vn[k][2]]]

\* ChunkMesh::default
ChunkMesh_default == [triangles |-> <<>>]

---------------------------------------------------------------------------
(* main.rs: update_chunk *)

\* the loop `for (i, v_pos) in grid_cell.vertex_position.iter().enumerate()`:
\* the cell with its 8 values read by chunk.get, and whether a get panicked
RECURSIVE SampleLoop(_, _, _)
SampleLoop(ch, g, i) ==
    IF i = 8 THEN [grid |-> g, panic |-> FALSE]
    ELSE LET value == Chunk_get(ch, g.vertex_position[i + 1]) IN
         IF value.some
         THEN SampleLoop(ch, [g EXCEPT !.value[i + 1] = value.val], i + 1)
         ELSE [grid |-> g, panic |-> TRUE]

\* let mut grid_cell = GridCell::new(pos.as_vec3()), then that loop
SampleCell(ch, pos) == SampleLoop(ch, GridCell_new(pos), 0)

\* one turn of the loop `for pos in chunk_iter.into_iter()`.  The loop state
\* is [it, triangles, cells, done, panic]: `it` is the loop's own iterator,
\* done is set when next() returns None or a call panicked.
SweepStep(st, ch, iso) ==
    IF st.done THEN st
    ELSE LET r == Iter3d_next(st.it, FALSE) IN
         IF ~r.ret.some THEN [st EXCEPT !.done = TRUE]
         ELSE LET c == SampleCell(ch, as_vec3(r.ret.val))
                  m == march_cube(c.grid, iso)
              IN  IF c.panic \/ m.panic
                  THEN [st EXCEPT !.done = TRUE, !.panic = TRUE,
                                  !.cells = Append(st.cells, r.ret.val)]
                  ELSE [it |-> r.it,
                        triangles |-> IF m.some THEN st.triangles \o m.val ELSE st.triangles,
                        cells |-> Append(st.cells, r.ret.val),
                        done |-> FALSE,
                        panic |-> FALSE]

\* n turns of the loop (split in halves to keep the evaluation shallow)
RECURSIVE SweepSteps(_, _, _, _)
SweepSteps(st, ch, iso, n) ==
    IF n = 0 THEN st
    ELSE IF n = 1 THEN SweepStep(st, ch, iso)
    ELSE LET half == SweepSteps(st, ch, iso, n \div 2)
         IN  IF half.done THEN half ELSE SweepSteps(half, ch, iso, n - (n \div 2))

\* the body of `for (chunk, mut chunk_iter, mut chunk_mesh, ..) in chunks.iter_mut()`
\* without chunk_mesh.triangles.clear()
SweepChunk_NoClear(ch, it, cm, iso) ==
    LET it1 == Iter3d_reset(it)
        run == SweepSteps([it |-> it1, triangles |-> cm.triangles, cells |-> <<>>,
                           done |-> FALSE, panic |-> FALSE],
                          ch, iso, BoxCount(it1) + 1)
        cm2 == [triangles |-> run.triangles]
    IN  [iter |-> Iter3d_reset(it1),
         chunk_mesh |-> cm2,
         mesh |-> Mesh_from(cm2),
         cells |-> run.cells,
         panic |-> run.panic]

\* the body of `for (chunk, mut chunk_iter, mut chunk_mesh, ..) in chunks.iter_mut()`:
\* reset, clear, the sweep, Mesh::from, reset.  `chunk_iter.into_iter()`
\* copies the stored Iter3d (it is Copy), so the loop advances the copy and
\* the stored iterator stays where reset() put it.  chunk.size < U32_MAX, so
\* next() cannot overflow here.
SweepChunk(ch, it, cm, iso) ==
    LET it1 == Iter3d_reset(it)
        cleared == <<>>
        run == SweepSteps([it |-> it1, triangles |-> cleared, cells |-> <<>>,
                           done |-> FALSE, panic |-> FALSE],
                          ch, iso, BoxCount(it1) + 1)
        cm2 == [triangles |-> run.triangles]
    IN  [iter |-> Iter3d_reset(it1),
         chunk_mesh |-> cm2,
         mesh |-> Mesh_from(cm2),
         cells |-> run.cells,
         panic |-> run.panic]

---------------------------------------------------------------------------
(* The parts of the state a specification does not use *)

IterIdle ==
    /\ iter = Iter3d_new(UVec3(0, 0, 0), UVec3(0, 0, 0))
    /\ yielded = <<>>
    /\ ret = None
    /\ calls = 0
    /\ was_reset = FALSE

ChunkIdle ==
    /\ chunk = [points |-> <<>>, size |-> 0]
    /\ op = [kind |-> "none"]
    /\ prev_points = <<>>
    /\ got = None
    /\ sets = 0

MarchIdle ==
    /\ grid = GridCell_new(Vec3(0, 0, 0))
    /\ marched = [called |-> FALSE]

AxisRanges ==
    {<<lo, lo + span>> : lo \in {0, U32_MAX - MaxSpan, U32_MAX}, span \in 0..MaxSpan}
ValidAxisRanges == {r \in AxisRanges : r[2] <= U32_MAX}

MeshIdle ==
    /\ chunk_mesh = ChunkMesh_default
    /\ mesh = [built |-> FALSE]

AppIdle ==
    /\ cells = <<>>
    /\ noise = 0
    /\ unseen = {}
    /\ events = 0
    /\ todo = {}
    /\ swept = [several |-> FALSE, replaced |-> FALSE]

---------------------------------------------------------------------------
(* Specification of the iterator alone: an Iter3d over a drawn box, driven *)
(* by next() and reset().                                                  *)

InitIter ==
    /\ AppIdle
    /\ MeshIdle
    /\ ChunkIdle
    /\ MarchIdle
    /\ isolevel = HALF
    /\ \E rx \in ValidAxisRanges, ry \in ValidAxisRanges, rz \in ValidAxisRanges :
          iter = Iter3d_new(UVec3(rx[1], ry[1], rz[1]), UVec3(rx[2], ry[2], rz[2]))
    /\ yielded = <<>>
    /\ ret = None
    /\ calls = 0
    /\ was_reset = FALSE
    /\ overflow_checks \in BOOLEAN
    /\ panicked = FALSE

IterNext ==
    /\ ~panicked
    /\ calls < BoxCount(iter) + MaxExtraCalls
    /\ LET r == Iter3d_next(iter, overflow_checks) IN
          /\ iter' = r.it
          /\ ret' = r.ret
          /\ panicked' = r.panic
          /\ yielded' = IF r.ret.some THEN Append(yielded, r.ret.val) ELSE yielded
    /\ calls' = calls + 1
    /\ UNCHANGED <<was_reset, overflow_checks, chunkVars, isolevel, marchVars, meshVars, appVars>>

IterReset ==
    /\ ~panicked
    /\ ~was_reset
    /\ iter' = Iter3d_reset(iter)
    /\ yielded' = <<>>
    /\ ret' = None
    /\ calls' = 0
    /\ was_reset' = TRUE
    /\ UNCHANGED <<overflow_checks, panicked, chunkVars, isolevel, marchVars, meshVars, appVars>>

NextIter == IterNext \/ IterReset

SpecIter == InitIter /\ [][NextIter]_vars

\* The row-major enumeration of the box [min, max]: x fastest, z slowest
RowMajor(min, max) ==
    LET nx == max[1] - min[1] + 1
        ny == max[2] - min[2] + 1
        nz == max[3] - min[3] + 1
    IN  [k \in 1..(nx * ny * nz) |->
            UVec3(min[1] + ((k - 1) % nx),
                  min[2] + (((k - 1) \div nx) % ny),
                  min[3] + ((k - 1) \div (nx * ny)))]

IsPrefix(s, t) == Len(s) <= Len(t) /\ \A k \in 1..Len(s) : s[k] = t[k]

\* C3: every next() yields the next coordinate of the row-major enumeration
\* of [min, max] (each coordinate once, starting with min), the first call
\* after the last coordinate returns None, and so does every later call
\* until reset().
C3_RowMajorThenNone ==
    LET want == RowMajor(iter.min, iter.max) IN
    /\ ~panicked
    /\ IsPrefix(yielded, want)
    /\ Len(yielded) = IF calls <= Len(want) THEN calls ELSE Len(want)
    /\ (calls > Len(want) => ~ret.some)
    /\ (calls > 0 /\ calls <= Len(want) => ret = Some(want[calls]))

\* The same statement for boxes whose max.y and max.z are below u32::MAX
C3_BelowWordMax ==
    (iter.max[2] < U32_MAX /\ iter.max[3] < U32_MAX) => C3_RowMajorThenNone

---------------------------------------------------------------------------
(* Specification of a chunk alone: a chunk as setup_chunks spawns it, or as *)
(* update_noise_values then fills it, under Chunk::get and Chunk::set.      *)

NoiseSettings == {0, 1}
ChunkSizes == 2..CHUNK_SIZE

\* positions handed to get/set: three lattice points of the valid range, and
\* each of them with one component moved to -1, size or size + 1
AxisOut(size) == {-1, size, size + 1}
TestPositions(size) ==
    LET corners == {Vec3(0, 0, 0), Vec3(1, 0, size - 1), Vec3(size - 1, size - 1, size - 1)}
    IN  corners
        \cup {Vec3(o, c[2], c[3]) : o \in AxisOut(size), c \in corners}
        \cup {Vec3(c[1], o, c[3]) : o \in AxisOut(size), c \in corners}
        \cup {Vec3(c[1], c[2], o) : o \in AxisOut(size), c \in corners}

SetValues == {ONE}

InitChunk ==
    /\ AppIdle
    /\ MeshIdle
    /\ IterIdle
    /\ MarchIdle
    /\ isolevel = HALF
    /\ overflow_checks = FALSE
    /\ panicked = FALSE
    /\ \E size \in ChunkSizes :
          \/ chunk = SpawnChunk(size)
          \/ \E s \in NoiseSettings : chunk = FillChunk(SpawnChunk(size), s)
    /\ op = [kind |-> "none"]
    /\ prev_points = <<>>
    /\ got = None
    /\ sets = 0

ChunkSet ==
    /\ ~panicked
    /\ sets < MaxSets
    /\ \E u \in TestPositions(chunk.size), v \in SetValues :
          LET r == Chunk_set(chunk, as_vec3(u), v) IN
          /\ chunk' = r.chunk
          /\ panicked' = r.panic
          /\ op' = [kind |-> "set", pos |-> u, value |-> v]
    /\ prev_points' = chunk.points
    /\ sets' = sets + 1
    /\ got' = None
    /\ UNCHANGED <<iterVars, overflow_checks, isolevel, marchVars, meshVars, appVars>>

ChunkGet ==
    /\ ~panicked
    /\ \E u \in TestPositions(chunk.size) :
          LET r == Chunk_get(chunk, as_vec3(u)) IN
          /\ got' = r
          /\ panicked' = ~r.some
          /\ op' = [kind |-> "get", pos |-> u]
    /\ prev_points' = chunk.points
    /\ UNCHANGED <<chunk, sets, iterVars, overflow_checks, isolevel, marchVars, meshVars, appVars>>

NextChunk == ChunkSet \/ ChunkGet

SpecChunk == InitChunk /\ [][NextChunk]_vars

\* the lattice coordinates of a chunk: [0, size)^3
Lattice(size) == {Vec3(x, y, z) : x \in 0..(size - 1), y \in 0..(size - 1), z \in 0..(size - 1)}
InRange(size, u) == \A a \in 1..3 : 0 <= u[a] /\ u[a] < size

\* C2: after set(p, v) with p in [0,size)^3, get(p) returns v and every other
\* q in [0,size)^3 reads what it read before; index maps [0,size)^3
\* one-to-one onto [0, size^3).
C2_SetGetRoundTrip ==
    LET size == chunk.size
        before == Chunk_new(prev_points, size)
    IN  (op.kind = "set" /\ InRange(size, op.pos)) =>
           /\ ~panicked
           /\ Chunk_get(chunk, as_vec3(op.pos)) = Some(op.value)
           /\ \A q \in Lattice(size) \ {op.pos} :
                 Chunk_get(chunk, as_vec3(q)) = Chunk_get(before, as_vec3(q))
           /\ \A p \in Lattice(size), q \in Lattice(size) :
                 p # q => Chunk_index(chunk, as_vec3(p)) # Chunk_index(chunk, as_vec3(q))
           /\ {Chunk_index(chunk, as_vec3(p)) : p \in Lattice(size)}
                 = 0..(size * size * size - 1)

\* C2 witness: a set at an in-range coordinate of a chunk whose field already
\* held another value somewhere else
C2_Witness ==
    /\ op.kind = "set"
    /\ InRange(chunk.size, op.pos)
    /\ chunk.size = CHUNK_SIZE
    /\ \E q \in Lattice(chunk.size) \ {op.pos} :
          /\ Chunk_get(chunk, as_vec3(q)).val # 0
          /\ Chunk_get(chunk, as_vec3(q)).val # op.value

\* C4: get and set fail when any component of pos is outside [0,size), a
\* failing set leaves the field unchanged, and neither reads nor writes the
\* slot of a different in-range coordinate.
C4_OutOfRangeFails ==
    (op.kind \in {"get", "set"} /\ ~InRange(chunk.size, op.pos)) =>
        /\ panicked
        /\ chunk.points = prev_points

---------------------------------------------------------------------------
(* Specification of march_cube alone: a GridCell with drawn corner values   *)
(* and a drawn isolevel, marched once.                                      *)

ValueSamples == {0, HALF, ONE}
\* isolevels: equal to a sampled value, and within 0.00001 of one without being equal
IsoSamples == {HALF, HALF + EPS - 1, ONE}

InitMarch ==
    /\ AppIdle
    /\ MeshIdle
    /\ IterIdle
    /\ ChunkIdle
    /\ overflow_checks = FALSE
    /\ panicked = FALSE
    /\ isolevel \in IsoSamples
    /\ \E vals \in [1..8 -> ValueSamples] :
          grid = [GridCell_new(as_vec3(UVec3(1, 2, 3))) EXCEPT !.value = vals]
    /\ marched = [called |-> FALSE]

March ==
    /\ ~marched.called
    /\ LET r == march_cube(grid, isolevel) IN
          /\ marched' = [called |-> TRUE, some |-> r.some, val |-> r.val, panic |-> r.panic]
          /\ panicked' = r.panic
    /\ UNCHANGED <<grid, isolevel, iterVars, chunkVars, overflow_checks, meshVars, appVars>>

NextMarch == March

SpecMarch == InitMarch /\ [][NextMarch]_vars

AllAbove == \A i \in 1..8 : grid.value[i] > isolevel
AllBelow == \A i \in 1..8 : grid.value[i] < isolevel
NoneBelow == \A i \in 1..8 : grid.value[i] >= isolevel

ReturnedNone == ~marched.panic /\ ~marched.some
ReturnedOneToFive ==
    ~marched.panic /\ marched.some /\ Len(marched.val) >= 1 /\ Len(marched.val) <= 5

\* C6 as stated: None when all 8 corner values are above the isolevel or all
\* 8 are below it, and in every other case 1 to 5 triangles, with no read
\* past the end of the table row.
C6_AsStated ==
    marched.called =>
        IF AllAbove \/ AllBelow THEN ReturnedNone ELSE ReturnedOneToFive

\* C6 amended: None exactly when no corner value is below the isolevel (all
\* 8 are >= it) or all 8 are below it, and in every other case 1 to 5
\* triangles, with no read past the end of the table row.
C6_NoneIffNoSignChange ==
    marched.called =>
        IF NoneBelow \/ AllBelow THEN ReturnedNone ELSE ReturnedOneToFive

\* C6 witness: a cell with a corner value equal to the isolevel that yields
\* the full five triangles (the row is read up to its last slot)
C6_Witness ==
    /\ marched.called
    /\ \E i \in 1..8 : grid.value[i] = isolevel
    /\ marched.some
    /\ Len(marched.val) = 5

---------------------------------------------------------------------------
(* Specification of the Mesh conversion alone: a drawn triangle list,       *)
(* converted once.                                                          *)

\* triangles over five lattice points: coplanar neighbours, faces of other
\* planes on the same vertices, a reversed face, a larger parallel face, and
\* triangles of zero area (as march_cube returns when a corner value equals
\* the isolevel)
TriangleSamples ==
    LET A == as_vec3(UVec3(0, 0, 0))
        B == as_vec3(UVec3(1, 0, 0))
        C == as_vec3(UVec3(0, 1, 0))
        D == as_vec3(UVec3(1, 1, 0))
        E == as_vec3(UVec3(0, 0, 1))
        F == as_vec3(UVec3(0, 2, 0))
    IN  {<<A, B, C>>, <<B, D, C>>, <<A, C, B>>, <<A, B, E>>, <<A, D, F>>,
         <<A, A, A>>, <<A, B, B>>}

TriangleLists ==
    UNION {[1..n -> TriangleSamples] : n \in 0..MaxTris}

InitMesh ==
    /\ AppIdle
    /\ IterIdle
    /\ ChunkIdle
    /\ MarchIdle
    /\ isolevel = HALF
    /\ overflow_checks = FALSE
    /\ panicked = FALSE
    /\ \E l \in TriangleLists : chunk_mesh = [triangles |-> l]
    /\ mesh = [built |-> FALSE]

Convert ==
    /\ ~mesh.built
    /\ mesh' = Mesh_from(chunk_mesh)
    /\ UNCHANGED <<chunk_mesh, isolevel, iterVars, chunkVars, marchVars,
                   overflow_checks, panicked, appVars>>

NextMesh == Convert

SpecMesh == InitMesh /\ [][NextMesh]_vars

\* corner k (1..3n) of the triangle list: its triangle, its position, and
\* the face normal of its triangle
CornerTriangle(k) == chunk_mesh.triangles[((k - 1) \div 3) + 1]
CornerPosition(k) == CornerTriangle(k)[((k - 1) % 3) + 1]
CornerNormal(k) ==
    LET t == CornerTriangle(k) IN face_normal(t[1], t[2], t[3])
Corners == 1..(3 * Len(chunk_mesh.triangles))

\* C7 as stated: two triangle corners receive the same index iff they have
\* the same position and their triangles have the same face normal; so no
\* two entries of the vertex list have identical (position, normal).
C7_AsStated ==
    mesh.built =>
        /\ \A k \in Corners, l \in Corners :
              k # l =>
                 ((mesh.indices[k] = mesh.indices[l])
                    <=> (CornerPosition(k) = CornerPosition(l) /\ CornerNormal(k) = CornerNormal(l)))
        /\ \A i \in 1..Len(mesh.positions), j \in 1..Len(mesh.positions) :
              i # j => ~(mesh.positions[i] = mesh.positions[j] /\ mesh.normals[i] = mesh.normals[j])

\* the same statement for lists whose triangles all have non-zero area
NoZeroArea == \A k \in Corners : ~CornerNormal(k).nan
C7_NonZeroArea == NoZeroArea => C7_AsStated

\* C8: indices.length = 3 * triangleCount, every index is below
\* positions.length, positions, normals and uvs have one length, and every
\* uv is (0, 0).
C8_MeshShape ==
    mesh.built =>
        /\ Len(mesh.indices) = 3 * Len(chunk_mesh.triangles)
        /\ \A k \in 1..Len(mesh.indices) :
              mesh.indices[k] >= 0 /\ mesh.indices[k] < Len(mesh.positions)
        /\ Len(mesh.positions) = Len(mesh.normals)
        /\ Len(mesh.positions) = Len(mesh.uvs)
        /\ \A k \in 1..Len(mesh.uvs) : mesh.uvs[k] = <<0, 0>>

\* C8 witness: a converted list in which a vertex was reused and one pushed
\* last, so the largest index is positions.length - 1
C8_Witness ==
    /\ mesh.built
    /\ Len(chunk_mesh.triangles) >= 2
    /\ Len(mesh.positions) < Len(mesh.indices)
    /\ mesh.indices[Len(mesh.indices)] = Len(mesh.positions) - 1

---------------------------------------------------------------------------
(* Specification of one sweep end to end: the chunk setup_chunks spawns,    *)
(* one lattice point set by Chunk::set, then one sweep of update_chunk at a *)
(* drawn isolevel.                                                          *)

SweepIsoSamples == {HALF, ONE + HALF}

InitSweep ==
    /\ MarchIdle
    /\ overflow_checks = FALSE
    /\ panicked = FALSE
    /\ chunk = SpawnChunk(CHUNK_SIZE)
    /\ op = [kind |-> "none"]
    /\ prev_points = <<>>
    /\ got = None
    /\ sets = 0
    /\ iter = new_iter_3d(CHUNK_SIZE)
    /\ yielded = <<>>
    /\ ret = None
    /\ calls = 0
    /\ was_reset = FALSE
    /\ chunk_mesh = ChunkMesh_default
    /\ mesh = Mesh_from(ChunkMesh_default)
    /\ isolevel = HALF
    /\ AppIdle

\* Chunk::set(p, 1.0) at a lattice point of [0, size)^3
SetPoint ==
    /\ op.kind = "none"
    /\ \E u \in Lattice(chunk.size) :
          LET r == Chunk_set(chunk, as_vec3(u), ONE) IN
          /\ chunk' = r.chunk
          /\ panicked' = r.panic
          /\ op' = [kind |-> "set", pos |-> u, value |-> ONE]
    /\ prev_points' = chunk.points
    /\ sets' = sets + 1
    /\ UNCHANGED <<got, iterVars, overflow_checks, isolevel, marchVars, meshVars, appVars>>

\* update_chunk on a StartMarching event, Data.isolevel having been set
SweepOnce ==
    /\ op.kind = "set"
    /\ ~panicked
    /\ \E iso \in SweepIsoSamples :
          \E r \in {SweepChunk(chunk, iter, chunk_mesh, iso)} :
          /\ isolevel' = iso
          /\ iter' = r.iter
          /\ chunk_mesh' = r.chunk_mesh
          /\ mesh' = r.mesh
          /\ cells' = r.cells
          /\ panicked' = r.panic
    /\ op' = [kind |-> "sweep", pos |-> op.pos]
    /\ UNCHANGED <<chunk, prev_points, got, sets, yielded, ret, calls, was_reset,
                   overflow_checks, marchVars, noise, unseen, events, todo, swept>>

NextSweep == SetPoint \/ SweepOnce

SpecSweep == InitSweep /\ [][NextSweep]_vars

\* the corner coordinates the sweep handed to Chunk::get
SweptCorners ==
    {UVec3(cells[k][1] + o[1], cells[k][2] + o[2], cells[k][3] + o[3]) :
        k \in 1..Len(cells), o \in {CornerOffsets[i] : i \in 1..8}}

\* C1: one full sweep evaluates exactly the (size-1)^3 cells whose origin
\* lies in [0, size-2] on every axis, each exactly once, and every corner
\* coordinate it passes to Chunk::get is in [0, size).
C1_SweepVisitsInteriorCells ==
    op.kind = "sweep" =>
        /\ Len(cells) = (chunk.size - 1) * (chunk.size - 1) * (chunk.size - 1)
        /\ {cells[k] : k \in 1..Len(cells)} = Lattice(chunk.size - 1)
        /\ \A c \in SweptCorners : InRange(chunk.size, c)

\* the edges of a triangle list, and how many triangles use each
TriangleEdges(tris) ==
    {{tris[k][a], tris[k][b]} : k \in 1..Len(tris), a \in 1..3, b \in 1..3}
EdgeUses(tris, e) ==
    Cardinality({<<k, a>> \in (1..Len(tris)) \X (1..3) :
                    {tris[k][a], tris[k][(a % 3) + 1]} = e})
Closed(tris) ==
    \A k \in 1..Len(tris), a \in 1..3 :
        EdgeUses(tris, {tris[k][a], tris[k][(a % 3) + 1]}) = 2

\* v lies on a lattice edge incident to the lattice point u
OnIncidentEdge(v, u) ==
    LET p == as_vec3(u)
        d == [a \in 1..3 |-> Abs(v[a] - p[a])]
    IN  \E a \in 1..3 :
           /\ d[a] <= POS_SCALE
           /\ \A b \in (1..3) \ {a} : d[b] = 0

Interior(size, u) == \A a \in 1..3 : 1 <= u[a] /\ u[a] <= size - 2

\* C5: with 1.0 at one interior lattice point and 0.0 elsewhere, a sweep at
\* isolevel 0.5 leaves a non-empty closed triangle set whose vertices lie on
\* lattice edges incident to that point, and a sweep at 1.5 leaves none.
C5_SinglePointSurface ==
    (op.kind = "sweep" /\ Interior(chunk.size, op.pos)) =>
        IF isolevel = HALF
        THEN /\ chunk_mesh.triangles # <<>>
             /\ Closed(chunk_mesh.triangles)
             /\ \A k \in 1..Len(chunk_mesh.triangles), a \in 1..3 :
                   OnIncidentEdge(chunk_mesh.triangles[k][a], op.pos)
        ELSE chunk_mesh.triangles = <<>>

---------------------------------------------------------------------------
(* The triangles of march_cube, in SpecMarch *)

PairwiseDistinct(t) == t[1] # t[2] /\ t[2] # t[3] /\ t[1] # t[3]

\* a corner value equal to the isolevel or within 0.00001 of it
NearIsolevel == \E i \in 1..8 : Abs(grid.value[i] - isolevel) < EPS

\* C12: every triangle march_cube returns has three pairwise distinct
\* vertices and a defined face normal, for every cell and isolevel, corner
\* values equal to or within 0.00001 of the isolevel included.
C12_DistinctVertices ==
    (marched.called /\ marched.some) =>
        \A k \in 1..Len(marched.val) :
            /\ PairwiseDistinct(marched.val[k])
            /\ ~face_normal(marched.val[k][1], marched.val[k][2], marched.val[k][3]).nan

\* the same statement for cells with no corner value within 0.00001 of the
\* isolevel
C12_AwayFromIsolevel == ~NearIsolevel => C12_DistinctVertices

---------------------------------------------------------------------------
(* Specification of one bulk fill: the chunk setup_chunks spawns, one run   *)
(* of the fill loop of update_noise_values under drawn noise settings, then *)
(* Chunk::get at the coordinates the fill visited.                          *)

InitFill ==
    /\ MeshIdle
    /\ IterIdle
    /\ MarchIdle
    /\ isolevel = HALF
    /\ overflow_checks = FALSE
    /\ panicked = FALSE
    /\ \E size \in ChunkSizes : chunk = SpawnChunk(size)
    /\ op = [kind |-> "none"]
    /\ prev_points = <<>>
    /\ got = None
    /\ sets = 0
    /\ AppIdle

\* update_noise_values on changed NoiseSettings: the fill loop over the chunk
FillField ==
    /\ ~panicked
    /\ op.kind = "none"
    /\ \E s \in NoiseSettings :
          /\ noise' = s
          /\ chunk' = FillChunk(chunk, s)
    /\ op' = [kind |-> "fill"]
    /\ prev_points' = chunk.points
    /\ UNCHANGED <<got, sets, iterVars, overflow_checks, panicked, isolevel, marchVars,
                   meshVars, cells, unseen, events, todo, swept>>

\* the coordinates `for point in Chunk::new_iter_3d(size)` yields: the
\* inclusive box [0, size]^3 (size is below u32::MAX)
FillVisits(size) == {UVec3(x, y, z) : x \in 0..size, y \in 0..size, z \in 0..size}

\* Chunk::get at a coordinate the fill visited
ReadBack ==
    /\ ~panicked
    /\ op.kind \in {"fill", "read"}
    /\ \E u \in FillVisits(chunk.size) :
          \E r \in {Chunk_get(chunk, as_vec3(u))} :
             /\ got' = r
             /\ panicked' = ~r.some
             /\ op' = [kind |-> "read", pos |-> u]
    /\ prev_points' = chunk.points
    /\ UNCHANGED <<chunk, sets, iterVars, overflow_checks, isolevel, marchVars, meshVars,
                   appVars>>

NextFill == FillField \/ ReadBack

SpecFill == InitFill /\ [][NextFill]_vars

\* C11: after one bulk fill, get(p) returns the value the fill computed for
\* p at every coordinate p the fill visited, and no two visited coordinates
\* share a storage slot (the write for one never overwrites another's).
C11_FillReadsBack ==
    /\ op.kind = "read" => got = Some(NoiseValue(noise, op.pos))
    /\ op.kind \in {"fill", "read"} =>
          \A p \in FillVisits(chunk.size), q \in FillVisits(chunk.size) :
              p # q => Chunk_index(chunk, as_vec3(p)) # Chunk_index(chunk, as_vec3(q))

\* the same statement for the coordinates of [0, size)^3 only
C11_InRangeReadsBack ==
    /\ (op.kind = "read" /\ InRange(chunk.size, op.pos)) =>
          got = Some(NoiseValue(noise, op.pos))
    /\ op.kind \in {"fill", "read"} =>
          \A p \in Lattice(chunk.size), q \in Lattice(chunk.size) :
              p # q => Chunk_index(chunk, as_vec3(p)) # Chunk_index(chunk, as_vec3(q))

---------------------------------------------------------------------------
(* Specification of the application: the chunk of setup_chunks and the     *)
(* systems of main(), each run once per frame in any order (main() orders   *)
(* none of them against another).  CHUNK_COUNT is 1: there is one chunk.    *)

Systems == {"start_march", "update_data", "update_noise_values", "update_chunk"}

\* the (resource, system) pairs of the systems that test is_changed()
Readers(res) ==
    IF res = "Data" THEN {<<"Data", "update_data">>}
    ELSE {<<"NoiseSettings", "update_data">>, <<"NoiseSettings", "update_noise_values">>}

\* Res::is_changed() of a resource in a system: the resource was added or
\* mutated since the system last ran
IsChanged(res, sys) == <<res, sys>> \in unseen

\* the system has run: what it could see as changed is seen
Seen(sys) == {p \in unseen : p[2] # sys}

\* after the startup systems: the resources are newly added (changed for
\* every system), the chunk is spawned with an empty mesh, no event is sent
Init ==
    /\ MarchIdle
    /\ overflow_checks = FALSE
    /\ panicked = FALSE
    /\ chunk = SpawnChunk(CHUNK_SIZE)
    /\ op = [kind |-> "none"]
    /\ prev_points = <<>>
    /\ got = None
    /\ sets = 0
    /\ iter = new_iter_3d(CHUNK_SIZE)
    /\ yielded = <<>>
    /\ ret = None
    /\ calls = 0
    /\ was_reset = FALSE
    /\ chunk_mesh = ChunkMesh_default
    /\ mesh = Mesh_from(ChunkMesh_default)
    /\ isolevel = HALF
    /\ noise = 0
    /\ unseen = Readers("Data") \cup Readers("NoiseSettings")
    /\ events = 0
    /\ todo = Systems
    /\ cells = <<>>
    /\ swept = [several |-> FALSE, replaced |-> FALSE]

\* start_march: R was just pressed in this frame, or not
start_march ==
    /\ ~panicked
    /\ "start_march" \in todo
    /\ todo' = todo \ {"start_march"}
    /\ \E pressed \in BOOLEAN : events' = IF pressed THEN events + 1 ELSE events
    /\ UNCHANGED <<iterVars, chunkVars, marchVars, meshVars, isolevel, noise, unseen,
                   cells, swept, overflow_checks, panicked>>

\* update_data
update_data ==
    /\ ~panicked
    /\ "update_data" \in todo
    /\ todo' = todo \ {"update_data"}
    /\ events' = IF IsChanged("Data", "update_data") \/ IsChanged("NoiseSettings", "update_data")
                 THEN events + 1 ELSE events
    /\ unseen' = Seen("update_data")
    /\ UNCHANGED <<iterVars, chunkVars, marchVars, meshVars, isolevel, noise,
                   cells, swept, overflow_checks, panicked>>

\* update_noise_values
update_noise_values ==
    /\ ~panicked
    /\ "update_noise_values" \in todo
    /\ todo' = todo \ {"update_noise_values"}
    /\ chunk' = IF IsChanged("NoiseSettings", "update_noise_values")
                THEN FillChunk(chunk, noise) ELSE chunk
    /\ unseen' = Seen("update_noise_values")
    /\ UNCHANGED <<iterVars, op, prev_points, got, sets, marchVars, meshVars, isolevel,
                   noise, events, cells, swept, overflow_checks, panicked>>

\* update_chunk: returns at once when its EventReader holds no event;
\* otherwise one sweep, whatever the number of events read
update_chunk ==
    /\ ~panicked
    /\ "update_chunk" \in todo
    /\ todo' = todo \ {"update_chunk"}
    /\ events' = 0
    /\ IF events = 0
       THEN UNCHANGED <<iter, chunk_mesh, mesh, cells, panicked, swept>>
       ELSE \E r \in {SweepChunk(chunk, iter, chunk_mesh, isolevel)} :
               /\ iter' = r.iter
               /\ chunk_mesh' = r.chunk_mesh
               /\ mesh' = r.mesh
               /\ cells' = r.cells
               /\ panicked' = r.panic
               /\ swept' = [several |-> events >= 2,
                            replaced |-> /\ chunk_mesh.triangles # <<>>
                                         /\ r.chunk_mesh.triangles # <<>>
                                         /\ r.chunk_mesh # chunk_mesh]
    /\ UNCHANGED <<yielded, ret, calls, was_reset, chunkVars, marchVars, isolevel,
                   noise, unseen, overflow_checks>>

\* the frame ends when every system has run; before the systems of the next
\* frame the inspector may have changed Data.isolevel or the NoiseSettings
AppIsoSamples == {HALF, ONE}

EndFrame ==
    /\ ~panicked
    /\ todo = {}
    /\ todo' = Systems
    /\ \E edit \in {"none", "Data", "NoiseSettings"} :
          /\ isolevel' = IF edit = "Data"
                         THEN CHOOSE i \in AppIsoSamples : i # isolevel ELSE isolevel
          /\ noise' = IF edit = "NoiseSettings"
                      THEN CHOOSE s \in NoiseSettings : s # noise ELSE noise
          /\ unseen' = IF edit = "none" THEN unseen ELSE unseen \cup Readers(edit)
    /\ swept' = [several |-> FALSE, replaced |-> FALSE]
    /\ UNCHANGED <<iterVars, chunkVars, marchVars, meshVars, events, cells,
                   overflow_checks, panicked>>

Next == start_march \/ update_data \/ update_noise_values \/ update_chunk \/ EndFrame

Spec == Init /\ [][Next]_vars

\* what a first-ever sweep of the chunk (iterator as created, empty buffer)
\* leaves for a field and an isolevel
FirstSweep(ch, iso) == SweepChunk(ch, new_iter_3d(ch.size), ChunkMesh_default, iso)

\* update_chunk has just run a sweep
Sweeps == "update_chunk" \in todo /\ "update_chunk" \notin todo' /\ events > 0

\* C9: every sweep leaves the triangle buffer a first-ever sweep over the
\* current field and isolevel would leave (nothing of an earlier sweep
\* survives), however many events were pending, reads all of them, and
\* leaves the stored iterator at min.
C9_SweepStartsFresh ==
    [][Sweeps =>
          /\ chunk_mesh' = FirstSweep(chunk', isolevel').chunk_mesh
          /\ mesh' = Mesh_from(chunk_mesh')
          /\ iter'.track = iter'.min
          /\ events' = 0]_vars

\* C9 witness: one sweep has read several events, over a buffer that held
\* the triangles of an earlier sweep, and left a different non-empty set
C9_Witness ==
    /\ swept.several
    /\ swept.replaced
    /\ chunk_mesh.triangles # <<>>
    /\ iter.track = iter.min

\* nothing is left to happen without a new input: the frame is over, no
\* event is unread and no change is unseen
Quiescent == todo = {} /\ events = 0 /\ unseen = {}

\* C10: once the systems have run to quiescence after a change of the noise
\* settings, the mesh is the sweep of the refilled field at the current
\* isolevel, whatever the order of the systems within the frames.
C10_MeshFollowsRefill ==
    Quiescent => chunk_mesh = FirstSweep(chunk, isolevel).chunk_mesh

=============================================================================
